---------------------------- MODULE Spec2Model ----------------------------
(***************************************************************************)
(* Model of the metrics pipeline of observability-library                  *)
(* (src/src/metrics.rs, src/src/lib.rs): the MetricsManager facade, its    *)
(* Python wrapper PyMetricsManager, PyBuiltInMetricsBuilder and the        *)
(* asynchronous publish future.                                            *)
(*                                                                         *)
(* crate::core (Transformation, the builders, the Execution Adapter        *)
(* `execute`) and crate::storage (StorageBackend) are not part of the      *)
(* available sources; they are modelled from the specification's sections  *)
(* 3, 4.1-4.4.                                                             *)
(***************************************************************************)
EXTENDS Naturals, Sequences, FiniteSets

VARIABLES
    api,            \* which surface drives the manager: "core" (Rust, as the tests) or "py" (binding)
    inner,          \* the MetricsManager value (PyMetricsManager.inner under "py")
    ret,            \* what the last configuration call (new, transform, execute) returned
    built,          \* the PyTransformation last returned by count_null, with the call's arguments
    tasks,          \* the publish futures created so far, in creation order; each
                    \* carries the batches it has printed to standard output
    execCount,      \* number of invocations of the Execution Adapter so far
    lastTransform,  \* argument of the last transform call that returned (identity if none)
    lastExecute     \* argument of the last execute call that staged batches (empty if none)

vars == <<api, inner, built, ret, tasks, execCount, lastTransform, lastExecute>>

(***************************************************************************)
(* Bounds                                                                  *)
(***************************************************************************)
MaxPublish == 2     \* publish calls per behaviour

(***************************************************************************)
(* Option<T>                                                               *)
(***************************************************************************)
None == <<>>
Some(x) == <<x>>

(***************************************************************************)
(* Transformation model (crate::core::definition)                          *)
(***************************************************************************)
Identity == <<>>

TransformationBuilder_new == <<>>
select(b, columns) == Append(b, [op |-> "Select", columns |-> columns])
aggregate(b, kind, columns) ==
    Append(b, [op |-> "Aggregate", kind |-> kind, columns |-> columns])
group_by(b, columns) == Append(b, [op |-> "GroupBy", columns |-> columns])
build(b) == b

\* BuiltInMetricsBuilder::count_null(column, alias)
count_null(column, alias) ==
    << [op |-> "BuiltInMetric", metric |-> "CountNull",
        column |-> column, alias |-> alias] >>

Range(s) == {s[i] : i \in DOMAIN s}

StageColumns(st) ==
    IF st.op = "BuiltInMetric" THEN {st.column} ELSE Range(st.columns)

ReferencedColumns(t) == UNION {StageColumns(t[i]) : i \in DOMAIN t}

\* name of the output column of a built-in metric stage
OutputName(st) ==
    IF st.alias = None THEN st.column ELSE st.alias[1]

OutputColumns(t) ==
    LET st == t[Len(t)]
    IN  IF st.op = "BuiltInMetric" THEN {OutputName(st)}
        ELSE ReferencedColumns(t)

(***************************************************************************)
(* Record batches                                                          *)
(***************************************************************************)
DatasetSchema == {"id", "value", "category"}
b1 == [name |-> "b1", schema |-> DatasetSchema]
b2 == [name |-> "b2", schema |-> DatasetSchema]
b3 == [name |-> "b3", schema |-> {"id"}]

\* batch lists a caller stages
BatchLists == { <<b1, b2>>, <<b1, b3>> }

(***************************************************************************)
(* Execution Adapter (crate::core::computing::execute)                     *)
(***************************************************************************)
Ok(v) == [ok |-> TRUE, value |-> v]
Err(e) == [ok |-> FALSE, value |-> e]

SchemasAgree(bs) == \A i, j \in DOMAIN bs : bs[i].schema = bs[j].schema

execute(batches, transformation) ==
    IF batches = <<>> THEN Ok(<<>>)
    ELSE IF ~SchemasAgree(batches) THEN Err("DataFusionError")
    ELSE IF transformation = Identity THEN Ok(batches)
    ELSE IF ~(ReferencedColumns(transformation) \subseteq batches[1].schema)
         THEN Err("DataFusionError")
    ELSE Ok(<< [name |-> "result", schema |-> OutputColumns(transformation)] >>)

(***************************************************************************)
(* StorageBackend (crate::storage) and its Python mirror                   *)
(***************************************************************************)
StorageBackend == {"Stdout", "Unimplemented"}
PyStorageBackend == {"Stdout"}

\* impl From<PyStorageBackend> for StorageBackend
StorageBackend_from(backend) == CASE backend = "Stdout" -> "Stdout"

(***************************************************************************)
(* MetricsManager                                                          *)
(***************************************************************************)
MetricsManager_default == [transformation |-> Identity, batches |-> <<>>]

MetricsManager_transform(self, transformation) ==
    [self EXCEPT !.transformation = transformation]

\* variant: the staged batches are extended instead of replaced
MetricsManager_executeAppend(self, batches) ==
    [self EXCEPT !.batches = @ \o batches]

MetricsManager_execute(self, batches) ==
    [self EXCEPT !.batches = batches]


(***************************************************************************)
(* The publish future: MetricsManager::publish, step by step               *)
(***************************************************************************)
\* a future created by publish(); `self` is the manager value it holds
NewTask(self, storage_backend) ==
    [transformation |-> self.transformation, batches |-> self.batches,
     backend |-> storage_backend, pc |-> "pending",
     args |-> None, raced |-> FALSE,
     result |-> <<>>, written |-> <<>>, next |-> Len(<<>>) + Len(<<b1>>), outcome |-> "none"]

\* variant: the future reads the manager object instead of its own clone
PublishArgsShared(task) == inner

\* what the future hands to the Execution Adapter: self.batches.clone(), &self.transformation
PublishArgs(task) ==
    [transformation |-> task.transformation, batches |-> task.batches]

\* Result::unwrap on the adapter's return value
unwrap(r) == IF r.ok THEN "value" ELSE "Panic"

\* variant: the loop runs before the backend is matched
ArmWritesAlways(storage_backend, result) == result

\* variant: the result is printed back to front
ArmWritesReversed(storage_backend, result) ==
    IF storage_backend = "Stdout"
    THEN [k \in DOMAIN result |-> result[Len(result) + Len(<<k>>) - k]]
    ELSE <<>>

\* the batches the selected match arm prints
ArmWrites(storage_backend, result) ==
    IF storage_backend = "Stdout" THEN result ELSE <<>>

\* the value the selected match arm returns
ArmReturns(storage_backend) ==
    IF storage_backend = "Stdout" THEN "Ok" ELSE "StorageBackendNotSupported"

\* let result = execute(self.batches.clone(), &self.transformation).await.unwrap();
TaskExecute(i) ==
    /\ tasks[i].pc = "pending"
    /\ LET a == PublishArgs(tasks[i])
           r == execute(a.batches, a.transformation)
           called == [tasks[i] EXCEPT !.args = Some(a),
                                      !.raced = (a # inner \/ tasks[i].raced)]
       IN  tasks' = [tasks EXCEPT ![i] =
                IF unwrap(r) = "Panic"
                THEN [called EXCEPT !.pc = "done", !.outcome = "Panic"]
                ELSE [called EXCEPT !.pc = "match", !.result = r.value]]
    /\ execCount' = execCount + Len(<<i>>)
    /\ UNCHANGED <<api, inner, built, ret, lastTransform, lastExecute>>

\* one iteration of `for batch in result { println!("{:?}", batch); }`
TaskWrite(i) ==
    /\ tasks[i].pc = "match"
    /\ tasks[i].next <= Len(ArmWrites(tasks[i].backend, tasks[i].result))
    /\ tasks' = [tasks EXCEPT
            ![i].written = Append(@, ArmWrites(tasks[i].backend,
                                               tasks[i].result)[tasks[i].next]),
            ![i].next = @ + Len(<<i>>)]
    /\ UNCHANGED <<api, inner, built, ret, execCount, lastTransform, lastExecute>>

\* the match arm's value: Ok(()) after the loop, or Err(StorageBackendNotSupported(name))
TaskReturn(i) ==
    /\ tasks[i].pc = "match"
    /\ tasks[i].next > Len(ArmWrites(tasks[i].backend, tasks[i].result))
    /\ tasks' = [tasks EXCEPT ![i].pc = "done",
                              ![i].outcome = ArmReturns(tasks[i].backend)]
    /\ UNCHANGED <<api, inner, built, ret, execCount, lastTransform, lastExecute>>

NoPending == \A i \in DOMAIN tasks : tasks[i].pc = "done"

(***************************************************************************)
(* The Rust surface, used as in the tests: the caller owns the manager     *)
(* value, each call consumes it and the publish future is awaited at once  *)
(* (it borrows the manager until it completes).                            *)
(***************************************************************************)
TestTransformation ==
    build(group_by(aggregate(select(TransformationBuilder_new,
                                    <<"id", "value", "category">>),
                             "Sum", <<"value">>),
                   <<"category">>))

CoreTransformations ==
    { TestTransformation,
      count_null("value", None),
      count_null("absent", Some("nulls")) }

CoreTransform(t) ==
    /\ api = "core"
    /\ NoPending
    /\ inner' = MetricsManager_transform(inner, t)
    /\ lastTransform' = t
    /\ ret' = "MetricsManager"
    /\ UNCHANGED <<api, built, tasks, execCount, lastExecute>>

CoreExecute(batches) ==
    /\ api = "core"
    /\ NoPending
    /\ inner' = MetricsManager_execute(inner, batches)
    /\ lastExecute' = batches
    /\ ret' = "MetricsManager"
    /\ UNCHANGED <<api, built, tasks, execCount, lastTransform>>

CorePublish(storage_backend) ==
    /\ api = "core"
    /\ NoPending
    /\ Len(tasks) < MaxPublish
    /\ tasks' = Append(tasks, NewTask(inner, storage_backend))
    /\ UNCHANGED <<api, inner, built, ret, execCount, lastTransform, lastExecute>>

(***************************************************************************)
(* The Python surface                                                      *)
(***************************************************************************)
CountNullCalls ==
    { <<"value", None>>, <<"value", Some("nulls")>>, <<"absent", None>> }

\* PyBuiltInMetricsBuilder::count_null
PyCountNullInner(column, alias) == count_null(column, None)

PyCountNull(column, alias) ==
    /\ api = "py"
    /\ built' = Some([inner |-> PyCountNullInner(column, alias),
                      column |-> column, alias |-> alias])
    /\ UNCHANGED <<api, inner, ret, tasks, execCount, lastTransform, lastExecute>>

\* PyMetricsManager::transform
PyTransform ==
    /\ api = "py"
    /\ built # None
    /\ inner' = [transformation |-> built[1].inner, batches |-> inner.batches]
    /\ lastTransform' = built[1].inner
    /\ ret' = "slf"
    /\ UNCHANGED <<api, built, tasks, execCount, lastExecute>>

\* Python objects handed to execute
PyRecordBatch(b) == [type |-> "pyarrow.RecordBatch", data |-> b]
NotABatch == [type |-> "str", data |-> b1]
Wrap(bs) == [i \in DOMAIN bs |-> PyRecordBatch(bs[i])]
PyBatchLists == {Wrap(bs) : bs \in BatchLists} \cup { <<PyRecordBatch(b1), NotABatch>> }

\* RecordBatch::from_pyarrow_bound
from_pyarrow_bound(o) ==
    IF o.type = "pyarrow.RecordBatch" THEN Ok(o.data) ELSE Err("TypeError")

\* the conversion loop: the first failing element ends it with `?`
ConvertAll(py_batches) ==
    IF \E i \in DOMAIN py_batches : ~from_pyarrow_bound(py_batches[i]).ok
    THEN Err("TypeError")
    ELSE Ok([i \in DOMAIN py_batches |-> from_pyarrow_bound(py_batches[i]).value])

\* variant: execute runs the Execution Adapter on the batches it stages
PyExecuteEager(py_batches) ==
    /\ api = "py"
    /\ LET c == ConvertAll(py_batches)
       IN  IF c.ok
           THEN /\ inner' = [transformation |-> inner.transformation,
                             batches |-> c.value]
                /\ lastExecute' = c.value
                /\ ret' = "slf"
                /\ execCount' = execCount + Len(<<c>>)
           ELSE /\ ret' = "PyErr"
                /\ UNCHANGED <<inner, lastExecute, execCount>>
    /\ UNCHANGED <<api, built, tasks, lastTransform>>

\* PyMetricsManager::execute
PyExecute(py_batches) ==
    /\ api = "py"
    /\ LET c == ConvertAll(py_batches)
       IN  IF c.ok
           THEN /\ inner' = [transformation |-> inner.transformation,
                             batches |-> c.value]
                /\ lastExecute' = c.value
                /\ ret' = "slf"
           ELSE /\ ret' = "PyErr"
                /\ UNCHANGED <<inner, lastExecute>>
    /\ UNCHANGED <<api, built, tasks, execCount, lastTransform>>

\* variant: publish moves the staged batches into the future
PyPublishTake(storage_backend) ==
    /\ api = "py"
    /\ Len(tasks) < MaxPublish
    /\ tasks' = Append(tasks, NewTask(inner, StorageBackend_from(storage_backend)))
    /\ inner' = [inner EXCEPT !.batches = <<>>]
    /\ UNCHANGED <<api, built, ret, execCount, lastTransform, lastExecute>>

\* PyMetricsManager::publish: clone inner, hand the future to the runtime
PyPublish(storage_backend) ==
    /\ api = "py"
    /\ Len(tasks) < MaxPublish
    /\ tasks' = Append(tasks, NewTask(inner, StorageBackend_from(storage_backend)))
    /\ UNCHANGED <<api, inner, built, ret, execCount, lastTransform, lastExecute>>

(***************************************************************************)
(* Specification                                                           *)
(***************************************************************************)
Init ==
    /\ api \in {"core", "py"}
    /\ inner = MetricsManager_default
    /\ built = None
    /\ ret = "new"
    /\ tasks = <<>>
    /\ execCount = Len(<<>>)
    /\ lastTransform = Identity
    /\ lastExecute = <<>>

Next ==
    \/ \E t \in CoreTransformations : CoreTransform(t)
    \/ \E bs \in BatchLists : CoreExecute(bs)
    \/ \E sb \in StorageBackend : CorePublish(sb)
    \/ \E c \in CountNullCalls : PyCountNull(c[1], c[2])
    \/ PyTransform
    \/ \E pb \in PyBatchLists : PyExecute(pb)
    \/ \E sb \in PyStorageBackend : PyPublish(sb)
    \/ \E i \in DOMAIN tasks : TaskExecute(i)
    \/ \E i \in DOMAIN tasks : TaskWrite(i)
    \/ \E i \in DOMAIN tasks : TaskReturn(i)

Spec == Init /\ [][Next]_vars

(***************************************************************************)
(* Properties                                                              *)
(***************************************************************************)
Snapshot(task) == [transformation |-> task.transformation, batches |-> task.batches]
Failed(task) == task.pc = "done" /\ task.outcome # "Ok"
ImplementedBackends == {"Stdout"}

\* C1: when the Execution Adapter call of a publish fails, publish ends by
\* returning the compute error (MetricError::DataFusionError) to its caller;
\* it does not panic.
C1_ExecutionFailureIsReturned ==
    \A i \in DOMAIN tasks :
        ( /\ tasks[i].pc = "done"
          /\ tasks[i].args # None
          /\ ~execute(tasks[i].args[1].batches, tasks[i].args[1].transformation).ok )
        => tasks[i].outcome = "DataFusionError"

\* C2: a publish to a backend variant without implementation always ends with
\* the StorageBackendNotSupported error, also when execution would fail.
C2_UnsupportedBackendIsReported ==
    \A i \in DOMAIN tasks :
        (tasks[i].pc = "done" /\ tasks[i].backend \notin ImplementedBackends)
        => tasks[i].outcome = "StorageBackendNotSupported"

\* C3: a publish call that does not end in success has written no batch to
\* the sink.
C3_FailedPublishWritesNothing ==
    \A i \in DOMAIN tasks : Failed(tasks[i]) => tasks[i].written = <<>>

\* a publish whose execution produced batches and ended with the
\* unsupported-backend error, and one that ended in the adapter's failure
C3_Witness ==
    /\ \E i \in DOMAIN tasks :
        /\ tasks[i].outcome = "StorageBackendNotSupported"
        /\ tasks[i].result # <<>>
    /\ \E i \in DOMAIN tasks : tasks[i].outcome = "Panic"

\* C4: the Execution Adapter is not invoked by the constructor, transform or
\* execute; each publish call invokes it exactly once, with the transformation
\* and batches staged when publish was called.
C4_LazySingleAttempt ==
    /\ [](execCount = Cardinality({i \in DOMAIN tasks : tasks[i].pc # "pending"}))
    /\ [][execCount' # execCount =>
            \E i \in DOMAIN tasks :
                /\ tasks[i].pc = "pending"
                /\ tasks'[i].pc # "pending"
                /\ execCount' = execCount + Len(<<i>>)
                /\ tasks'[i].args = Some(Snapshot(tasks[i]))]_vars

\* every publish call made after staging a transformation and batches has run
C4_Witness ==
    /\ Len(tasks) >= MaxPublish
    /\ \A i \in DOMAIN tasks : tasks[i].pc = "done"
    /\ execCount = Len(tasks)
    /\ lastTransform # Identity
    /\ lastExecute # <<>>

\* C5: transform and execute, as exposed through PyMetricsManager, do not
\* mutate the manager they are called on: its transformation and batches are
\* the same after the call as before.  (The receiver of the Rust methods is
\* consumed by the call and cannot be observed afterwards.)
C5_ConfigurationDoesNotMutate ==
    [][(PyTransform \/ \E pb \in PyBatchLists : PyExecute(pb)) => inner' = inner]_vars

\* C6: the Transformation returned by the exposed count_null(column, alias)
\* carries the alias that was passed.
C6_AliasIsCarried ==
    built # None => built[1].inner[Len(built[1].inner)].alias = built[1].alias

\* C7: a successful publish(Stdout) has written every batch the Execution
\* Adapter returned, once and in the adapter's order; until it returns, what
\* it has written is a prefix of that result.
C7_StdoutWritesInOrder ==
    \A i \in DOMAIN tasks :
        /\ tasks[i].outcome = "Ok" =>
              /\ tasks[i].backend = "Stdout"
              /\ tasks[i].written = tasks[i].result
              /\ tasks[i].result =
                    execute(tasks[i].args[1].batches, tasks[i].args[1].transformation).value
        /\ tasks[i].backend = "Stdout" =>
              /\ Len(tasks[i].written) <= Len(tasks[i].result)
              /\ tasks[i].written = SubSeq(tasks[i].result, Len(<<i>>), Len(tasks[i].written))

\* a successful publish of a result of several batches
C7_Witness ==
    \E i \in DOMAIN tasks :
        /\ tasks[i].outcome = "Ok"
        /\ Len(tasks[i].result) > Len(<<i>>)
        /\ tasks[i].result[Len(tasks[i].result)] # tasks[i].result[Len(<<i>>)]

\* C8: no step of a publish changes the manager; a publish call captures the
\* manager as it is, so two calls in a row capture the same transformation and
\* batches, hand the same arguments to the Execution Adapter and end with the
\* same output.
C8_PublishLeavesManager ==
    /\ [][tasks' # tasks => inner' = inner]_vars
    /\ [][Len(tasks') > Len(tasks) => Snapshot(tasks'[Len(tasks')]) = inner']_vars
    /\ [](\A i, j \in DOMAIN tasks :
            ( /\ Snapshot(tasks[i]) = Snapshot(tasks[j])
              /\ tasks[i].backend = tasks[j].backend
              /\ tasks[i].pc = "done" /\ tasks[j].pc = "done" )
            => /\ tasks[i].args = tasks[j].args
               /\ tasks[i].outcome = tasks[j].outcome
               /\ tasks[i].written = tasks[j].written)

\* two successive publish(Stdout) calls on the same staged manager, both finished
C8_Witness ==
    \E i, j \in DOMAIN tasks :
        /\ j = i + Len(<<i>>)
        /\ Snapshot(tasks[i]) = inner /\ Snapshot(tasks[j]) = inner
        /\ tasks[i].outcome = "Ok" /\ tasks[j].outcome = "Ok"
        /\ tasks[i].written # <<>>
        /\ inner.transformation # Identity

\* C9: a new manager holds the identity transformation and no batches; after
\* any sequence of transform and execute calls it holds the argument of the
\* last transform and the argument of the last execute.
C9_LastArgumentWins ==
    inner = [transformation |-> lastTransform, batches |-> lastExecute]

\* a transform after an execute (and the reverse) kept the other field
C9_Witness ==
    /\ lastTransform # Identity
    /\ lastExecute # <<>>
    /\ ret \in {"slf", "MetricsManager"}

\* C10: the Execution Adapter of a publish issued through PyMetricsManager
\* receives the transformation and batches staged when publish was called,
\* also when transform or execute ran on the manager while it was pending.
C10_PublishUsesSnapshot ==
    \A i \in DOMAIN tasks :
        (api = "py" /\ tasks[i].args # None)
        => tasks[i].args[1] = Snapshot(tasks[i])

\* the adapter was called after the manager had been reconfigured
C10_Witness ==
    \E i \in DOMAIN tasks :
        /\ api = "py"
        /\ tasks[i].args # None
        /\ tasks[i].raced
        /\ tasks[i].outcome = "Ok"

=============================================================================
